---- MODULE Spec2Model ----
(***************************************************************************)
(* Model of the FSSP debt checker batch pipeline.                          *)
(*                                                                         *)
(*   Spec      debt_checker/utils.py: process_row tasks on a thread pool,  *)
(*             the consuming loop of process_rows_concurrently,            *)
(*             save_temp_data, the SIGINT handler of setup_signal_handler, *)
(*             and merge_temp_files.                                       *)
(*   MainSpec  main.py: the script with its own process_row, its global    *)
(*             stop_processing flag, its SIGINT handler, the consuming     *)
(*             loop and the finally block (last flush, merge); FairMain    *)
(*             adds that every thread keeps running.                       *)
(*                                                                         *)
(* Identifiers are enforcement numbers in textual form ("1234/56/7890-..") *)
(* which pandas keeps as text through str(), to_csv, read_csv and          *)
(* astype(str); they are modelled by the strings of Numbers.               *)
(* Missing values keep their representation: None in memory ("None"), an   *)
(* empty CSV field (""), NaN after read_csv ("NaN"), pd.NA in the input    *)
(* table ("NA").                                                           *)
(***************************************************************************)
EXTENDS Integers, Sequences, FiniteSets, TLC

\* ------------------------------------------------------------------ bounds
NumRows == 2
MaxInterval == 2
MaxThreads == 2

Numbers == {"A", "B"}
ExistingDebts == {"NA", "5.0"}

Rows == 1..NumRows

\* ------------------------------------------------------- values and records
IsNa(v) == v \in {"None", "NaN", "NA", ""}

CredentialTokens == {"TOKEN_NO_ACCESS", "TOKEN_NO_MONEY"}

ProcessResult(index, number, debt_amount, error) ==
    [index |-> index, number |-> number, debt_amount |-> debt_amount, error |-> error]

NoResult == ProcessResult(-1, "", "None", "None")

\* what a future holds: None, the 'API_ERROR' sentinel, or a ProcessResult
ReturnNone == [kind |-> "None", val |-> NoResult]
ReturnApiError == [kind |-> "API_ERROR", val |-> NoResult]
ReturnResult(pr) == [kind |-> "Result", val |-> pr]
\* a future whose task raised: future.result() raises the exception again
FutureRaised == [kind |-> "Raised", val |-> NoResult]

\* -------------------------------------------------------------- api client
\* An answer of the remote service:
\*   exc      the exception of requests.get / raise_for_status / response.json()
\*            ("" if none): "RequestException" (connection, timeout, HTTP error
\*            status), "JSONDecodeError" (undecodable body)
\*   shape    what the body decodes to: "dict", "list" or "null"
\*   error    data["error"] ("": no such key);  message: data has "message"
\*   status   data["status"] (0: no such key);  count: data["count"] (-1: no key)
\*   records  "ok": records[0]["sum"] exists, "missing": no "records" key,
\*            "empty": records = [], "nosum": records[0] has no "sum"
\*   sum      records[0]["sum"]: a numeric string, "abc", or "null" (JSON null)
Answer(exc, shape, error, message, status, count, records, sum) ==
    [exc |-> exc, shape |-> shape, error |-> error, message |-> message,
     status |-> status, count |-> count, records |-> records, sum |-> sum]

FailedRequest(exc) == Answer(exc, "dict", "", FALSE, 0, -1, "missing", "null")
ErrorAnswer(code) == Answer("", "dict", code, TRUE, 0, -1, "missing", "null")
DebtAnswer(sum) == Answer("", "dict", "", FALSE, 200, 1, "ok", sum)

\* The answers the tasks of the pipeline get.
Responses ==
    { FailedRequest("RequestException"), ErrorAnswer("602"), ErrorAnswer("498"),
      DebtAnswer("7.0") }

\* how a call ends for its caller: with a value or with an exception
Returns(v) == [exc |-> "", val |-> v]
Raises(e) == [exc |-> e, val |-> "None"]

\* float(s) for the strings of the model
Float(s) ==
    IF s = "null" THEN Raises("TypeError")
    ELSE IF s = "7" \/ s = "7.0" THEN Returns("7.0")
    ELSE Raises("ValueError")

\* float(data["records"][0]["sum"])
RecordSum(data) ==
    IF data.records = "missing" \/ data.records = "nosum" THEN Raises("KeyError")
    ELSE IF data.records = "empty" THEN Raises("IndexError")
    ELSE Float(data.sum)

_handle_api_response(data) ==
    IF data.shape = "null" THEN Raises("TypeError")
    ELSE IF data.shape = "list" THEN Raises("AttributeError")
    ELSE IF data.error # ""
    THEN IF data.error \in {"602", "498"}
         THEN IF ~data.message THEN Raises("KeyError")
              ELSE IF data.error = "602" THEN Returns("TOKEN_NO_ACCESS")
              ELSE Returns("TOKEN_NO_MONEY")
         ELSE Returns("None")
    ELSE IF data.status # 200 THEN Returns("None")
    ELSE IF data.count = 1
         THEN IF RecordSum(data).exc \in {"KeyError", "ValueError", "IndexError"}
              THEN Returns("None")
              ELSE RecordSum(data)
    ELSE IF data.count = 0 THEN Returns("0.0")
    ELSE Returns("None")

\* the try block of get_debt_amount: request, raise_for_status, json, handling
TryRequest(resp) ==
    IF resp.exc # "" THEN Raises(resp.exc) ELSE _handle_api_response(resp)

\* try: ... except Exception: return None
get_debt_amount(resp) ==
    IF TryRequest(resp).exc # "" THEN "None" ELSE TryRequest(resp).val

\* a get_debt_amount without its except clause
CallLookup_Uncaught(resp) == TryRequest(resp)

\* the call of get_debt_amount as process_row sees it: the except Exception
\* clause of get_debt_amount lets nothing out, the call always returns
CallLookup(resp) == Returns(get_debt_amount(resp))

\* ------------------------------------------------------------------- state
VARIABLES
    df,               \* input table: sequence of [number, Debt_Amount]
    save_interval,    \* argument of process_rows_concurrently
    max_threads,      \* argument of process_rows_concurrently
    stop_event,       \* threading.Event, module level
    tpc,              \* per future: "none", "queued", "checked", "lookup", "done"
    tres,             \* per future: its result once done
    cpc,              \* position of the consuming thread
    cur,              \* the future as_completed handed out last (0: none)
    consumed,         \* futures as_completed has handed out
    processed_data,   \* the unflushed buffer
    counter,          \* processed counter
    disk,             \* temp dir: fragment counter -> CSV rows
    final_df,         \* result of merge_temp_files (<<>> before the merge)
    merged_df,        \* the concatenated fragments as the merge read them
    joined,           \* the joined frame of the merge before columns are dropped
    recorded,         \* history: every result appended to the buffer, in order
    written,          \* history: fragments written in this run, [name, rows]
    write_failed,     \* history: a fragment write raised
    tlog,             \* history: per task, the stop flag at its check and at its lookup,
                      \* and whether its remote call failed
    cred_stop,        \* history: a credential error has set the stop flag
    in_flight_at_stop,\* history: lookups in progress when the flag was first set
    loop_saw,         \* history: the stop flag as the loop head read it last
    exc_logged,       \* history: calls of logger.exception by process_rows_concurrently
    stop_processing,  \* main.py: the global thread termination flag
    remote,           \* lookup alone: the answers the service gives to successive requests
    api_impl,         \* lookup alone: "debt_checker" or "legacy" (src/api_client.py)
    api_pc,           \* lookup alone: "idle", "calling", "done"
    attempts,         \* lookup alone: requests made so far
    api_out,          \* lookup alone: how the call of get_debt_amount ended
    sig_rows          \* history, main.py: the results buffered when a SIGINT arrived

vars == <<df, save_interval, max_threads, stop_event, tpc, tres, cpc, cur, consumed,
          processed_data, counter, disk, final_df, merged_df, joined, recorded, written,
          write_failed, tlog, cred_stop, in_flight_at_stop, loop_saw, exc_logged,
          stop_processing, sig_rows, remote, api_impl, api_pc, attempts, api_out>>

pipeVars == <<cpc, cur, consumed, processed_data, counter, recorded, loop_saw>>
taskVars == <<tpc, tres, tlog>>
argVars == <<df, save_interval, max_threads>>
diskVars == <<disk, written, write_failed>>
mergeVars == <<final_df, merged_df, joined>>
stopVars == <<stop_event, cred_stop, in_flight_at_stop>>
mainVars == <<stop_processing, sig_rows>>
apiVars == <<remote, api_impl, api_pc, attempts, api_out>>

\* ------------------------------------------------------------ CSV fragments
NoneToEmpty(v) == IF v = "None" THEN "" ELSE v
\* pd.read_csv: an empty field comes back as NaN
EmptyToNaN(v) == IF v = "" THEN "NaN" ELSE v

\* pd.DataFrame(data).to_csv: one line per ProcessResult, None as empty field
ToCsv(data) ==
    [k \in 1..Len(data) |->
        [index |-> data[k].index, number |-> data[k].number,
         debt_amount |-> NoneToEmpty(data[k].debt_amount),
         error |-> NoneToEmpty(data[k].error)]]

\* a fragment left in the directory by an earlier run
StaleFragment == ToCsv(<<ProcessResult(0, "A", "9.0", "None")>>)
EmptyDisk == [k \in {} |-> <<>>]
StaleDisks == {EmptyDisk, [k \in {1} |-> StaleFragment]}

\* a file name that does not embed the counter
WriteFile_FixedName(d, name, lines) ==
    [k \in (DOMAIN d) \cup {0} |-> IF k = 0 THEN lines ELSE d[k]]

\* to_csv to numbers_with_debt_temp_{counter}.csv: the file is created or replaced
WriteFile(d, name, lines) ==
    [k \in (DOMAIN d) \cup {name} |-> IF k = name THEN lines ELSE d[k]]

\* the history of the writes; writing the same file again with the same rows
\* (a SIGINT repeated at the same point) is one entry
Logged(log, entry) ==
    IF log # <<>> /\ log[Len(log)] = entry THEN log ELSE Append(log, entry)

\* a save_temp_data without the test of its data: an empty list gives a file too
save_temp_data_AlwaysWrites(data, cnt, ok) ==
    IF ok
    THEN /\ disk' = WriteFile(disk, cnt, ToCsv(data))
         /\ written' = Logged(written, [name |-> cnt, rows |-> data])
         /\ write_failed' = write_failed
    ELSE /\ write_failed' = TRUE
         /\ UNCHANGED <<disk, written>>

\* save_temp_data(data, counter, ...): ok = FALSE is to_csv raising; the
\* exception is logged and swallowed and the directory is left as it was.
save_temp_data(data, cnt, ok) ==
    IF data # <<>>
    THEN IF ok
         THEN /\ disk' = WriteFile(disk, cnt, ToCsv(data))
              /\ written' = Logged(written, [name |-> cnt, rows |-> data])
              /\ write_failed' = write_failed
         ELSE /\ write_failed' = TRUE
              /\ UNCHANGED <<disk, written>>
    ELSE /\ ok
         /\ UNCHANGED diskVars

\* -------------------------------------------------------- merge_temp_files
\* os.listdir returns the fragments in arbitrary order
Orders(S) ==
    {s \in [1..Cardinality(S) -> S] : \A a, b \in 1..Cardinality(S) : a # b => s[a] # s[b]}

\* pd.read_csv(temp); frag (the file a line came from) is kept for the proofs
\* only, it is no column of the frame
ReadFrame(name, lines) ==
    [k \in 1..Len(lines) |->
        [frag |-> name, index |-> lines[k].index, number |-> lines[k].number,
         debt_amount |-> EmptyToNaN(lines[k].debt_amount),
         error |-> EmptyToNaN(lines[k].error)]]

\* pd.concat([pd.read_csv(temp) for temp in all_temp_files], ignore_index=True)
RECURSIVE ConcatFrames(_, _)
ConcatFrames(d, order) ==
    IF order = <<>> THEN <<>>
    ELSE ReadFrame(Head(order), d[Head(order)]) \o ConcatFrames(d, Tail(order))

\* an original row joined with one fragment line; left (the position of the
\* original row) and Original (its value before the fill) are kept for the
\* proofs only
Joined(i, row, line) ==
    [left |-> i, number |-> row.number, Debt_Amount |-> row.Debt_Amount,
     Original |-> row.Debt_Amount, frag |-> line.frag, index |-> line.index,
     debt_amount |-> line.debt_amount, error |-> line.error]

NoLine == [frag |-> -1, index |-> -1, number |-> "", debt_amount |-> "NaN", error |-> "NaN"]

RECURSIVE JoinLines(_, _, _)
JoinLines(i, row, lines) ==
    IF lines = <<>> THEN <<>>
    ELSE (IF Head(lines).number = row.number THEN <<Joined(i, row, Head(lines))>> ELSE <<>>)
         \o JoinLines(i, row, Tail(lines))

\* the rows pd.merge(how="left") makes of one original row
JoinRow(i, row, lines) ==
    IF \E k \in 1..Len(lines) : lines[k].number = row.number
    THEN JoinLines(i, row, lines)
    ELSE <<Joined(i, row, NoLine)>>

RECURSIVE PdMergeFrom(_, _, _)
PdMergeFrom(i, original_df, lines) ==
    IF i > Len(original_df) THEN <<>>
    ELSE JoinRow(i, original_df[i], lines) \o PdMergeFrom(i + 1, original_df, lines)

\* pd.merge(original_df, merged_df, on="number", how="left")
PdMerge(original_df, lines) == PdMergeFrom(1, original_df, lines)

\* the fill the other way round: final_df["Debt Amount"].fillna(final_df["debt_amount"])
FillNa_OriginalFirst(debt_amount, Debt_Amount) ==
    IF IsNa(Debt_Amount) THEN debt_amount ELSE Debt_Amount

\* final_df["debt_amount"].fillna(final_df["Debt Amount"])
FillNa(debt_amount, Debt_Amount) ==
    IF IsNa(debt_amount) THEN Debt_Amount ELSE debt_amount

\* final_df after the fill, before the other columns are dropped
FillFrame(j) ==
    [k \in 1..Len(j) |->
        [j[k] EXCEPT !.Debt_Amount = FillNa(j[k].debt_amount, j[k].Debt_Amount)]]

DropColumns(j) ==
    [k \in 1..Len(j) |-> [number |-> j[k].number, Debt_Amount |-> j[k].Debt_Amount]]

\* ------------------------------------------------------------------- Init
\* the input tables, up to the naming of the identifiers
Tables == {t \in [Rows -> [number : Numbers, Debt_Amount : ExistingDebts]] : t[1].number = "A"}

\* the state before the run, for the pool sizes and the directories given
InitOf(pools, disks) ==
    /\ df \in Tables
    /\ save_interval \in 1..MaxInterval
    /\ max_threads \in pools
    /\ disk \in disks
    /\ stop_event = FALSE
    /\ tpc = [i \in Rows |-> "none"]
    /\ tres = [i \in Rows |-> ReturnNone]
    /\ cpc = "start"
    /\ cur = 0
    /\ consumed = {}
    /\ processed_data = <<>>
    /\ counter = 0
    /\ final_df = <<>>
    /\ merged_df = <<>>
    /\ joined = <<>>
    /\ recorded = <<>>
    /\ written = <<>>
    /\ write_failed = FALSE
    /\ tlog = [i \in Rows |-> [check |-> "no", lookup |-> "no", cred |-> FALSE,
                               failed |-> FALSE]]
    /\ cred_stop = FALSE
    /\ in_flight_at_stop = {}
    /\ loop_saw = "no"
    /\ exc_logged = 0
    /\ stop_processing = FALSE
    /\ sig_rows = {}
    /\ remote = <<>>
    /\ api_impl = "debt_checker"
    /\ api_pc = "idle"
    /\ attempts = 0
    /\ api_out = Returns("None")

Init == InitOf(1..MaxThreads, StaleDisks)

\* ------------------------------------------------- process_row (one task)
Running == {i \in Rows : tpc[i] \in {"checked", "lookup"}}
InFlight == {i \in Rows : tpc[i] = "lookup"}
FlagNow == IF stop_event THEN "set" ELSE "clear"

\* the pool has a free worker for the next queued task (FIFO work queue)
CanStart(i) ==
    /\ tpc[i] = "queued"
    /\ \A j \in Rows : j < i => tpc[j] # "queued"
    /\ Cardinality(Running) < max_threads

\* process_row without its stop check
CheckStop_Unchecked(i) ==
    /\ CanStart(i)
    /\ tlog' = [tlog EXCEPT ![i].check = FlagNow]
    /\ tpc' = [tpc EXCEPT ![i] = "checked"]
    /\ UNCHANGED <<argVars, apiVars, exc_logged, mainVars, stopVars, tres, pipeVars, diskVars,
                   mergeVars>>

\* process_row waiting at its stop check until the flag is cleared
CheckStop_WaitsWhileStopped(i) ==
    /\ CanStart(i)
    /\ ~stop_event
    /\ tlog' = [tlog EXCEPT ![i].check = FlagNow]
    /\ tpc' = [tpc EXCEPT ![i] = "checked"]
    /\ UNCHANGED <<argVars, apiVars, exc_logged, mainVars, stopVars, tres, pipeVars, diskVars,
                   mergeVars>>

\* if stop_event.is_set(): return None
CheckStop(i) ==
    /\ CanStart(i)
    /\ tlog' = [tlog EXCEPT ![i].check = FlagNow]
    /\ IF stop_event
       THEN /\ tpc' = [tpc EXCEPT ![i] = "done"]
            /\ tres' = [tres EXCEPT ![i] = ReturnNone]
       ELSE /\ tpc' = [tpc EXCEPT ![i] = "checked"]
            /\ UNCHANGED tres
    /\ UNCHANGED <<argVars, apiVars, exc_logged, mainVars, stopVars, pipeVars, diskVars, mergeVars>>

\* process_row looking up rows that have a value already
CheckExisting_AlwaysLookup(i) ==
    /\ tpc[i] = "checked"
    /\ tpc' = [tpc EXCEPT ![i] = "lookup"]
    /\ tlog' = [tlog EXCEPT ![i].lookup = FlagNow, ![i].cred = cred_stop]
    /\ UNCHANGED <<argVars, apiVars, exc_logged, mainVars, stopVars, tres, pipeVars, diskVars,
                   mergeVars>>

\* existing value: return None; otherwise the call of get_debt_amount begins
CheckExisting(i) ==
    /\ tpc[i] = "checked"
    /\ IF ~IsNa(df[i].Debt_Amount)
       THEN /\ tpc' = [tpc EXCEPT ![i] = "done"]
            /\ tres' = [tres EXCEPT ![i] = ReturnNone]
            /\ UNCHANGED tlog
       ELSE /\ tpc' = [tpc EXCEPT ![i] = "lookup"]
            /\ tlog' = [tlog EXCEPT ![i].lookup = FlagNow, ![i].cred = cred_stop]
            /\ UNCHANGED tres
    /\ UNCHANGED <<argVars, apiVars, exc_logged, mainVars, stopVars, pipeVars, diskVars, mergeVars>>

\* what process_row makes of the value get_debt_amount returned
RowResult(i, debt_amount) ==
    ReturnResult(ProcessResult(i - 1, df[i].number, debt_amount, "None"))

\* a process_row that stops the batch on a lookup without amount as well
RowSetsStop_OnAnyFailure(debt_amount) == debt_amount \in CredentialTokens \cup {"None"}

\* if debt_amount in ("TOKEN_NO_ACCESS", "TOKEN_NO_MONEY"): stop_event.set()
RowSetsStop(debt_amount) == debt_amount \in CredentialTokens

\* the try block of process_row around the call, with its two except clauses
TryLookup(i, call) ==
    IF call.exc = "" THEN RowResult(i, call.val)
    ELSE IF call.exc = "RequestException"
         THEN ReturnResult(ProcessResult(i - 1, df[i].number, "None", "NETWORK_ERROR"))
         ELSE ReturnResult(ProcessResult(i - 1, df[i].number, "None", "UNKNOWN_ERROR"))

\* get_debt_amount returns; a credential token sets the stop flag
FinishLookup(i) ==
    /\ tpc[i] = "lookup"
    /\ \E resp \in Responses :
        LET call == CallLookup(resp)
        IN /\ tres' = [tres EXCEPT ![i] = TryLookup(i, call)]
           /\ tlog' = [tlog EXCEPT ![i].failed = (resp.exc # "")]
           /\ IF call.exc = "" /\ RowSetsStop(call.val)
              THEN /\ stop_event' = TRUE
                   /\ cred_stop' = TRUE
                   /\ in_flight_at_stop' =
                        IF stop_event THEN in_flight_at_stop ELSE InFlight \ {i}
              ELSE UNCHANGED stopVars
    /\ tpc' = [tpc EXCEPT ![i] = "done"]
    /\ UNCHANGED <<argVars, apiVars, exc_logged, mainVars, pipeVars, diskVars, mergeVars>>

\* ------------------------------------------------------ the SIGINT handler
\* setup_signal_handler binds the handler to the lists and the counter of its
\* caller, "after variables are initialized but before processing starts";
\* process_rows_concurrently then works on a list and a counter of its own.
HandlerArgs == [temp_data |-> <<>>, processed_data |-> <<>>, counter |-> 0]

signal_handler ==
    /\ cpc # "merged"
    /\ stop_event' = TRUE
    /\ in_flight_at_stop' = IF stop_event THEN in_flight_at_stop ELSE InFlight
    /\ \E ok \in BOOLEAN :
        save_temp_data(HandlerArgs.temp_data \o HandlerArgs.processed_data,
                       HandlerArgs.counter, ok)
    /\ UNCHANGED <<argVars, apiVars, exc_logged, mainVars, cred_stop, taskVars, pipeVars, mergeVars>>

\* ------------------------------------------- process_rows_concurrently
\* futures = {executor.submit(process_row, index, row, ...) for index, row in df.iterrows()}
Submit ==
    /\ cpc = "start"
    /\ tpc' = [i \in Rows |-> "queued"]
    /\ cpc' = "wait"
    /\ UNCHANGED <<argVars, apiVars, exc_logged, mainVars, stopVars, tres, tlog, cur, consumed, processed_data, counter,
                   recorded, loop_saw, diskVars, mergeVars>>

\* a loop head that does not look at the stop flag
NextCompletion_NoStopCheck(i) ==
    /\ cpc = "wait"
    /\ tpc[i] = "done"
    /\ i \notin consumed
    /\ cur' = i
    /\ consumed' = consumed \cup {i}
    /\ cpc' = "result"
    /\ loop_saw' = FlagNow
    /\ UNCHANGED <<argVars, apiVars, exc_logged, mainVars, stopVars, taskVars, processed_data, counter, recorded,
                   diskVars, mergeVars>>

\* as_completed hands out a finished future; if stop_event.is_set(): break
NextCompletion(i) ==
    /\ cpc = "wait"
    /\ tpc[i] = "done"
    /\ i \notin consumed
    /\ cur' = i
    /\ consumed' = consumed \cup {i}
    /\ cpc' = IF stop_event THEN "exit" ELSE "result"
    /\ loop_saw' = FlagNow
    /\ UNCHANGED <<argVars, apiVars, exc_logged, mainVars, stopVars, taskVars, processed_data, counter, recorded,
                   diskVars, mergeVars>>

\* as_completed is exhausted: the for loop ends
LoopExhausted ==
    /\ cpc = "wait"
    /\ consumed = Rows
    /\ cpc' = "exit"
    /\ UNCHANGED <<argVars, apiVars, exc_logged, mainVars, stopVars, taskVars, cur, consumed, processed_data, counter,
                   recorded, loop_saw, diskVars, mergeVars>>

\* a loop body that appends a result twice
Appended_Twice(buf, result) ==
    IF result.kind = "Result" THEN Append(Append(buf, result.val), result.val) ELSE buf

\* if result: processed_data.append(result); counter += 1
Appended(buf, result) ==
    IF result.kind = "Result" THEN Append(buf, result.val) ELSE buf

\* a counter that counts every completion, None included
Counted_EveryCompletion(c, result) == c + 1

Counted(c, result) ==
    IF result.kind = "Result" THEN c + 1 ELSE c

\* a flush after every completion
FlushDue_EveryCompletion(c, interval) == TRUE

\* if counter % save_interval == 0
FlushDue(c, interval) == c % interval = 0

\* a flush that forgets processed_data.clear()
AfterFlush_NotCleared(buf) == buf

\* a flush that keeps the last result in the buffer
AfterFlush_KeepsLast(buf) == IF buf = <<>> THEN <<>> ELSE <<buf[Len(buf)]>>

\* what is left in the buffer after the flush
AfterFlush(buf) == <<>>

\* a loop body whose flush lets the exception of a failed write through: the
\* loop is left by the exception
Consume_WriteFailurePropagates ==
    /\ cpc = "result"
    /\ tres[cur].kind # "Raised"
    /\ LET result == tres[cur]
       IN IF result.kind = "API_ERROR"
          THEN /\ cpc' = "exit"
               /\ UNCHANGED <<processed_data, counter, recorded, diskVars>>
          ELSE LET buf == Appended(processed_data, result)
                   c == Counted(counter, result)
               IN /\ counter' = c
                  /\ recorded' = Appended(recorded, result)
                  /\ IF FlushDue(c, save_interval)
                     THEN \E ok \in BOOLEAN :
                            /\ save_temp_data(buf, c, ok)
                            /\ processed_data' = IF ok THEN AfterFlush(buf) ELSE buf
                            /\ cpc' = IF ok THEN "wait" ELSE "unwind"
                     ELSE /\ processed_data' = buf
                          /\ cpc' = "wait"
                          /\ UNCHANGED diskVars
    /\ UNCHANGED <<argVars, apiVars, exc_logged, mainVars, stopVars, taskVars, cur, consumed, loop_saw, mergeVars>>

\* a loop body that saves what it has buffered before it leaves on the sentinel
Consume_SentinelFlushes ==
    /\ cpc = "result"
    /\ tres[cur].kind # "Raised"
    /\ LET result == tres[cur]
       IN IF result.kind = "API_ERROR"
          THEN /\ cpc' = "exit"
               /\ \E ok \in BOOLEAN : save_temp_data(processed_data, counter, ok)
               /\ UNCHANGED <<processed_data, counter, recorded>>
          ELSE LET buf == Appended(processed_data, result)
                   c == Counted(counter, result)
               IN /\ cpc' = "wait"
                  /\ counter' = c
                  /\ recorded' = Appended(recorded, result)
                  /\ IF FlushDue(c, save_interval)
                     THEN /\ \E ok \in BOOLEAN : save_temp_data(buf, c, ok)
                          /\ processed_data' = AfterFlush(buf)
                     ELSE /\ processed_data' = buf
                          /\ UNCHANGED diskVars
    /\ UNCHANGED <<argVars, apiVars, exc_logged, mainVars, stopVars, taskVars, cur, consumed, loop_saw, mergeVars>>

\* result = future.result() and the rest of the loop body
Consume ==
    /\ cpc = "result"
    /\ tres[cur].kind # "Raised"
    /\ LET result == tres[cur]
       IN IF result.kind = "API_ERROR"
          THEN /\ cpc' = "exit"
               /\ UNCHANGED <<processed_data, counter, recorded, diskVars>>
          ELSE LET buf == Appended(processed_data, result)
                   c == Counted(counter, result)
               IN /\ cpc' = "wait"
                  /\ counter' = c
                  /\ recorded' = Appended(recorded, result)
                  /\ IF FlushDue(c, save_interval)
                     THEN /\ \E ok \in BOOLEAN : save_temp_data(buf, c, ok)
                          /\ processed_data' = AfterFlush(buf)
                     ELSE /\ processed_data' = buf
                          /\ UNCHANGED diskVars
    /\ UNCHANGED <<argVars, apiVars, exc_logged, mainVars, stopVars, taskVars, cur, consumed, loop_saw, mergeVars>>

\* leaving the pool without waiting for its workers: shutdown(wait=False)
ExitPool_NoWait ==
    /\ cpc = "exit"
    /\ cpc' = "returned"
    /\ UNCHANGED <<argVars, apiVars, exc_logged, mainVars, stopVars, taskVars, cur, consumed, processed_data, counter,
                   recorded, loop_saw, diskVars, mergeVars>>

\* leaving the pool as shutdown(wait=True, cancel_futures=True) would: the
\* running tasks are awaited, the queued ones are dropped
ExitPool_CancelsQueued ==
    /\ cpc = "exit"
    /\ \A i \in Rows : tpc[i] \in {"queued", "done"}
    /\ cpc' = "returned"
    /\ UNCHANGED <<argVars, apiVars, exc_logged, mainVars, stopVars, taskVars, cur, consumed, processed_data, counter,
                   recorded, loop_saw, diskVars, mergeVars>>

\* leaving the with block: ThreadPoolExecutor.__exit__ is shutdown(wait=True);
\* then return processed_data, counter
ExitPool ==
    /\ cpc = "exit"
    /\ \A i \in Rows : tpc[i] = "done"
    /\ cpc' = "returned"
    /\ UNCHANGED <<argVars, apiVars, exc_logged, mainVars, stopVars, taskVars, cur, consumed, processed_data, counter,
                   recorded, loop_saw, diskVars, mergeVars>>

\* ------------------------------------------------------------- the caller
\* the caller's last flush of the returned buffer with the returned counter
FinalFlush ==
    /\ cpc = "returned"
    /\ \E ok \in BOOLEAN : save_temp_data(processed_data, counter, ok)
    /\ cpc' = "flushed"
    /\ UNCHANGED <<argVars, apiVars, exc_logged, mainVars, stopVars, taskVars, cur, consumed, processed_data, counter,
                   recorded, loop_saw, mergeVars>>

\* merge_temp_files(temp_dir, original_df, final_path, logger)
merge_temp_files ==
    /\ cpc = "flushed"
    /\ cpc' = "merged"
    /\ IF DOMAIN disk = {}
       THEN UNCHANGED mergeVars
       ELSE \E order \in Orders(DOMAIN disk) :
               /\ merged_df' = ConcatFrames(disk, order)
               /\ joined' = FillFrame(PdMerge(df, merged_df'))
               /\ final_df' = DropColumns(joined')
    /\ UNCHANGED <<argVars, apiVars, exc_logged, mainVars, stopVars, taskVars, cur, consumed, processed_data, counter,
                   recorded, loop_saw, diskVars>>

Next ==
    \/ Submit
    \/ \E i \in Rows : CheckStop(i)
    \/ \E i \in Rows : CheckExisting(i)
    \/ \E i \in Rows : FinishLookup(i)
    \/ \E i \in Rows : NextCompletion(i)
    \/ LoopExhausted
    \/ Consume
    \/ ExitPool
    \/ signal_handler
    \/ FinalFlush
    \/ merge_temp_files

Spec == Init /\ [][Next]_vars

\* the steps of process_rows_concurrently and of its tasks: a worker that can
\* take a task takes it, a lookup returns or times out, the loop goes on
RunStep ==
    \/ Submit
    \/ \E i \in Rows : CheckStop(i)
    \/ \E i \in Rows : CheckExisting(i)
    \/ \E i \in Rows : FinishLookup(i)
    \/ \E i \in Rows : NextCompletion(i)
    \/ LoopExhausted
    \/ Consume
    \/ ExitPool

FairRun == Spec /\ WF_vars(RunStep)

\* ------------------------------------- a task that returns the sentinel
\* process_row returns the string 'API_ERROR' (the process_row of main.py
\* does; the test patches process_row with side_effect = ["API_ERROR", ...])
TaskReturnsSentinel(i) ==
    /\ tpc[i] = "checked"
    /\ tpc' = [tpc EXCEPT ![i] = "done"]
    /\ tres' = [tres EXCEPT ![i] = ReturnApiError]
    /\ UNCHANGED <<argVars, apiVars, exc_logged, mainVars, stopVars, tlog, pipeVars, diskVars, mergeVars>>

SentinelNext ==
    \/ Next
    \/ \E i \in Rows : TaskReturnsSentinel(i)

SentinelSpec == Init /\ [][SentinelNext]_vars

\* ------------------------------------------------- a task that raises
\* process_row raises outside its try block (lines 110-122; the test patches
\* process_row with side_effect = Exception): the worker stores the exception
\* in the future and goes on with the next task
TaskRaises(i) ==
    /\ tpc[i] = "checked"
    /\ tpc' = [tpc EXCEPT ![i] = "done"]
    /\ tres' = [tres EXCEPT ![i] = FutureRaised]
    /\ UNCHANGED <<argVars, apiVars, exc_logged, mainVars, stopVars, tlog, pipeVars, diskVars, mergeVars>>

\* result = future.result() raises: the with block is left by the exception
ResultRaises ==
    /\ cpc = "result"
    /\ tres[cur].kind = "Raised"
    /\ cpc' = "unwind"
    /\ UNCHANGED <<argVars, apiVars, exc_logged, mainVars, stopVars, taskVars, cur, consumed,
                   processed_data, counter, recorded, loop_saw, diskVars, mergeVars>>

\* an except clause that logs and returns what it has
Reraise_Swallowed ==
    /\ cpc = "unwind"
    /\ \A i \in Rows : tpc[i] = "done"
    /\ exc_logged' = exc_logged + 1
    /\ cpc' = "returned"
    /\ UNCHANGED <<argVars, apiVars, mainVars, stopVars, taskVars, cur, consumed,
                   processed_data, counter, recorded, loop_saw, diskVars, mergeVars>>

\* ThreadPoolExecutor.__exit__ waits for the workers; then except Exception:
\* logger.exception(...); raise
Reraise ==
    /\ cpc = "unwind"
    /\ \A i \in Rows : tpc[i] = "done"
    /\ exc_logged' = exc_logged + 1
    /\ cpc' = "raised"
    /\ UNCHANGED <<argVars, apiVars, mainVars, stopVars, taskVars, cur, consumed,
                   processed_data, counter, recorded, loop_saw, diskVars, mergeVars>>

PoolFailureNext ==
    \/ Next
    \/ \E i \in Rows : TaskRaises(i)
    \/ ResultRaises
    \/ Reraise

PoolFailureSpec == Init /\ [][PoolFailureNext]_vars

\* ================================================================ main.py
\* src/api_client.py get_debt_amount: the same outcomes on these answers
\* (every exception of the body is caught by one of its except clauses and
\* gives None; a falling off the end of the function gives None as well)
api_get_debt_amount(resp) ==
    IF resp.exc # "" THEN "None"
    ELSE IF resp.shape # "dict" THEN "None"
    ELSE IF resp.error \in {"602", "498"}
         THEN IF ~resp.message THEN "None"
              ELSE IF resp.error = "602" THEN "TOKEN_NO_ACCESS"
              ELSE "TOKEN_NO_MONEY"
    ELSE IF resp.status = 0 THEN "None"
    ELSE IF resp.status = 200
         THEN IF resp.count = -1 THEN "None"
              ELSE IF resp.count = 1
                   THEN (IF RecordSum(resp).exc # "" THEN "None" ELSE RecordSum(resp).val)
              ELSE IF resp.count = 0 THEN "0"
              ELSE "None"
    ELSE "None"

\* temp_data = [] (nothing is ever appended to it)
temp_data == <<>>

RowSet(buf) == {buf[k] : k \in 1..Len(buf)}

\* MAX_THREADS = 20 workers for at most NumRows tasks; SAVE_INTERVAL is scaled
\* to the bound MaxInterval
MainInit == InitOf({NumRows}, {EmptyDisk})

\* if stop_processing: return None
main_CheckStop(i) ==
    /\ CanStart(i)
    /\ IF stop_processing
       THEN /\ tpc' = [tpc EXCEPT ![i] = "done"]
            /\ tres' = [tres EXCEPT ![i] = ReturnNone]
       ELSE /\ tpc' = [tpc EXCEPT ![i] = "checked"]
            /\ UNCHANGED tres
    /\ UNCHANGED <<argVars, apiVars, exc_logged, mainVars, stopVars, tlog, pipeVars, diskVars, mergeVars>>

\* if pd.isna(existing_debt): the lookup begins; else: return None
main_CheckExisting(i) ==
    /\ tpc[i] = "checked"
    /\ IF ~IsNa(df[i].Debt_Amount)
       THEN /\ tpc' = [tpc EXCEPT ![i] = "done"]
            /\ tres' = [tres EXCEPT ![i] = ReturnNone]
       ELSE /\ tpc' = [tpc EXCEPT ![i] = "lookup"]
            /\ UNCHANGED tres
    /\ UNCHANGED <<argVars, apiVars, exc_logged, mainVars, stopVars, tlog, pipeVars, diskVars, mergeVars>>

\* 'API_ERROR' for a credential token, else the dict {index, number, debt_amount}
\* (the dict has no error key; its column is carried empty)
main_RowResult(i, debt_amount) ==
    IF debt_amount \in CredentialTokens
    THEN ReturnApiError
    ELSE ReturnResult(ProcessResult(i - 1, df[i].number, debt_amount, "None"))

main_FinishLookup(i) ==
    /\ tpc[i] = "lookup"
    /\ \E resp \in Responses :
          tres' = [tres EXCEPT ![i] = main_RowResult(i, api_get_debt_amount(resp))]
    /\ tpc' = [tpc EXCEPT ![i] = "done"]
    /\ UNCHANGED <<argVars, apiVars, exc_logged, mainVars, stopVars, tlog, pipeVars, diskVars, mergeVars>>

\* a handler that ends the process ("Exiting...") instead of returning
signal_handler_multiprocessing_Exits ==
    /\ cpc \notin {"merged", "exited"}
    /\ stop_processing' = TRUE
    /\ sig_rows' = sig_rows \cup RowSet(temp_data \o processed_data)
    /\ \E ok \in BOOLEAN : save_temp_data(temp_data \o processed_data, counter, ok)
    /\ cpc' = "exited"
    /\ UNCHANGED <<argVars, apiVars, exc_logged, stopVars, taskVars, cur, consumed, processed_data, counter,
                   recorded, loop_saw, mergeVars>>

\* SIGINT: runs in the main thread between two of its steps, reads the globals
signal_handler_multiprocessing ==
    /\ cpc \notin {"merged", "exited"}
    /\ stop_processing' = TRUE
    /\ sig_rows' = sig_rows \cup RowSet(temp_data \o processed_data)
    /\ \E ok \in BOOLEAN : save_temp_data(temp_data \o processed_data, counter, ok)
    /\ UNCHANGED <<argVars, apiVars, exc_logged, stopVars, taskVars, pipeVars, mergeVars>>

main_Submit ==
    /\ cpc = "start"
    /\ tpc' = [i \in Rows |-> "queued"]
    /\ cpc' = "wait"
    /\ UNCHANGED <<argVars, apiVars, exc_logged, mainVars, stopVars, tres, tlog, cur, consumed, processed_data,
                   counter, recorded, loop_saw, diskVars, mergeVars>>

\* as_completed hands out a finished future; if stop_processing: break
main_NextCompletion(i) ==
    /\ cpc = "wait"
    /\ tpc[i] = "done"
    /\ i \notin consumed
    /\ cur' = i
    /\ consumed' = consumed \cup {i}
    /\ cpc' = IF stop_processing THEN "exit" ELSE "result"
    /\ loop_saw' = IF stop_processing THEN "set" ELSE "clear"
    /\ UNCHANGED <<argVars, apiVars, exc_logged, mainVars, stopVars, taskVars, processed_data, counter, recorded,
                   diskVars, mergeVars>>

main_LoopExhausted ==
    /\ cpc = "wait"
    /\ consumed = Rows
    /\ cpc' = "exit"
    /\ UNCHANGED <<argVars, apiVars, exc_logged, mainVars, stopVars, taskVars, cur, consumed, processed_data,
                   counter, recorded, loop_saw, diskVars, mergeVars>>

\* result = future.result(); 'API_ERROR': stop_processing = True, break;
\* if result: processed_data.append(result)
main_Result ==
    /\ cpc = "result"
    /\ LET result == tres[cur]
       IN IF result.kind = "API_ERROR"
          THEN /\ stop_processing' = TRUE
               /\ cpc' = "exit"
               /\ UNCHANGED processed_data
          ELSE /\ processed_data' = Appended(processed_data, result)
               /\ cpc' = IF result.kind = "Result" THEN "count" ELSE "flushq"
               /\ UNCHANGED stop_processing
    /\ UNCHANGED <<argVars, apiVars, exc_logged, sig_rows, stopVars, taskVars, cur, consumed, counter, recorded,
                   loop_saw, diskVars, mergeVars>>

\* counter += 1
main_Count ==
    /\ cpc = "count"
    /\ counter' = counter + 1
    /\ cpc' = "flushq"
    /\ UNCHANGED <<argVars, apiVars, exc_logged, mainVars, stopVars, taskVars, cur, consumed, processed_data,
                   recorded, loop_saw, diskVars, mergeVars>>

\* if counter % SAVE_INTERVAL == 0: save_temp_data(temp_data + processed_data, counter, ...)
main_Flush ==
    /\ cpc = "flushq"
    /\ IF FlushDue(counter, save_interval)
       THEN /\ \E ok \in BOOLEAN : save_temp_data(temp_data \o processed_data, counter, ok)
            /\ cpc' = "reset"
       ELSE /\ cpc' = "wait"
            /\ UNCHANGED diskVars
    /\ UNCHANGED <<argVars, apiVars, exc_logged, mainVars, stopVars, taskVars, cur, consumed, processed_data,
                   counter, recorded, loop_saw, mergeVars>>

\* temp_data = []; processed_data = []
main_Reset ==
    /\ cpc = "reset"
    /\ processed_data' = <<>>
    /\ cpc' = "wait"
    /\ UNCHANGED <<argVars, apiVars, exc_logged, mainVars, stopVars, taskVars, cur, consumed, counter, recorded,
                   loop_saw, diskVars, mergeVars>>

\* leaving the with block waits for the workers; then the finally block begins
main_ExitPool ==
    /\ cpc = "exit"
    /\ \A i \in Rows : tpc[i] = "done"
    /\ cpc' = "finally"
    /\ UNCHANGED <<argVars, apiVars, exc_logged, mainVars, stopVars, taskVars, cur, consumed, processed_data,
                   counter, recorded, loop_saw, diskVars, mergeVars>>

\* finally: save_temp_data(temp_data + processed_data, counter, ...)
main_FinalFlush ==
    /\ cpc = "finally"
    /\ \E ok \in BOOLEAN : save_temp_data(temp_data \o processed_data, counter, ok)
    /\ cpc' = "flushed"
    /\ UNCHANGED <<argVars, apiVars, exc_logged, mainVars, stopVars, taskVars, cur, consumed, processed_data,
                   counter, recorded, loop_saw, mergeVars>>

\* finally: merge of the temp CSV files into the final table, then sys.exit(0)
main_Merge ==
    /\ cpc = "flushed"
    /\ cpc' = "merged"
    /\ IF DOMAIN disk = {}
       THEN UNCHANGED mergeVars
       ELSE \E order \in Orders(DOMAIN disk) :
               /\ merged_df' = ConcatFrames(disk, order)
               /\ joined' = FillFrame(PdMerge(df, merged_df'))
               /\ final_df' = DropColumns(joined')
    /\ UNCHANGED <<argVars, apiVars, exc_logged, mainVars, stopVars, taskVars, cur, consumed, processed_data,
                   counter, recorded, loop_saw, diskVars>>

MainThread ==
    \/ main_Submit
    \/ \E i \in Rows : main_NextCompletion(i)
    \/ main_LoopExhausted
    \/ main_Result
    \/ main_Count
    \/ main_Flush
    \/ main_Reset
    \/ main_ExitPool
    \/ main_FinalFlush
    \/ main_Merge

Worker(i) ==
    \/ main_CheckStop(i)
    \/ main_CheckExisting(i)
    \/ main_FinishLookup(i)

MainNext ==
    \/ MainThread
    \/ \E i \in Rows : Worker(i)
    \/ signal_handler_multiprocessing

MainSpec == MainInit /\ [][MainNext]_vars

\* a thread that can take a step does take one: the main thread keeps running
\* and a lookup returns or times out
Progress == MainThread \/ \E i \in Rows : Worker(i)

FairMain == MainSpec /\ WF_vars(Progress)

\* ------------------------------------------------------- src/utils.py
\* The pipeline of the module src/utils.py: its process_row gets the stop
\* flag as an argument, bound when the task is submitted, and its loop keeps
\* the flag in a local variable; save_temp_data and merge_temp_files are those
\* of debt_checker, statement for statement.

\* executor.submit(process_row, index, row, api_token, logger, stop_processing)
\* with stop_processing = False; if stop_processing: return None
legacy_CheckStop(i) ==
    /\ CanStart(i)
    /\ tpc' = [tpc EXCEPT ![i] = "checked"]
    /\ UNCHANGED <<argVars, apiVars, exc_logged, mainVars, stopVars, tres, tlog, pipeVars, diskVars, mergeVars>>

\* if not pd.isna(existing_debt): return None
legacy_CheckExisting(i) ==
    /\ tpc[i] = "checked"
    /\ IF ~IsNa(df[i].Debt_Amount)
       THEN /\ tpc' = [tpc EXCEPT ![i] = "done"]
            /\ tres' = [tres EXCEPT ![i] = ReturnNone]
       ELSE /\ tpc' = [tpc EXCEPT ![i] = "lookup"]
            /\ UNCHANGED tres
    /\ UNCHANGED <<argVars, apiVars, exc_logged, mainVars, stopVars, tlog, pipeVars, diskVars, mergeVars>>

\* ProcessResult(index, num, debt_amount, None) for a credential token,
\* ProcessResult(index, num, debt_amount) for every other value
legacy_RowResult(i, debt_amount) ==
    ReturnResult(ProcessResult(i - 1, df[i].number, debt_amount, "None"))

\* get_debt_amount of src/api_client.py returns (it raises nothing)
legacy_FinishLookup(i) ==
    /\ tpc[i] = "lookup"
    /\ \E resp \in Responses :
          tres' = [tres EXCEPT ![i] = legacy_RowResult(i, api_get_debt_amount(resp))]
    /\ tpc' = [tpc EXCEPT ![i] = "done"]
    /\ UNCHANGED <<argVars, apiVars, exc_logged, mainVars, stopVars, tlog, pipeVars, diskVars, mergeVars>>

\* futures = {executor.submit(...): index for index, row in df.iterrows()}
legacy_Submit ==
    /\ cpc = "start"
    /\ tpc' = [i \in Rows |-> "queued"]
    /\ cpc' = "wait"
    /\ UNCHANGED <<argVars, apiVars, exc_logged, mainVars, stopVars, tres, tlog, cur, consumed, processed_data,
                   counter, recorded, loop_saw, diskVars, mergeVars>>

\* as_completed hands out a finished future; if stop_processing: break
legacy_NextCompletion(i) ==
    /\ cpc = "wait"
    /\ tpc[i] = "done"
    /\ i \notin consumed
    /\ cur' = i
    /\ consumed' = consumed \cup {i}
    /\ cpc' = IF stop_processing THEN "exit" ELSE "result"
    /\ loop_saw' = IF stop_processing THEN "set" ELSE "clear"
    /\ UNCHANGED <<argVars, apiVars, exc_logged, mainVars, stopVars, taskVars, processed_data, counter, recorded,
                   diskVars, mergeVars>>

legacy_LoopExhausted ==
    /\ cpc = "wait"
    /\ consumed = Rows
    /\ cpc' = "exit"
    /\ UNCHANGED <<argVars, apiVars, exc_logged, mainVars, stopVars, taskVars, cur, consumed, processed_data,
                   counter, recorded, loop_saw, diskVars, mergeVars>>

\* result = future.result(); 'API_ERROR': stop_processing = True, break;
\* if result: append, counter += 1; if counter % save_interval == 0:
\* save_temp_data(processed_data.copy(), counter, ...), processed_data.clear()
legacy_Consume ==
    /\ cpc = "result"
    /\ LET result == tres[cur]
       IN IF result.kind = "API_ERROR"
          THEN /\ stop_processing' = TRUE
               /\ cpc' = "exit"
               /\ UNCHANGED <<processed_data, counter, recorded, diskVars>>
          ELSE LET buf == Appended(processed_data, result)
                   c == Counted(counter, result)
               IN /\ cpc' = "wait"
                  /\ counter' = c
                  /\ recorded' = Appended(recorded, result)
                  /\ UNCHANGED stop_processing
                  /\ IF FlushDue(c, save_interval)
                     THEN /\ \E ok \in BOOLEAN : save_temp_data(buf, c, ok)
                          /\ processed_data' = AfterFlush(buf)
                     ELSE /\ processed_data' = buf
                          /\ UNCHANGED diskVars
    /\ UNCHANGED <<argVars, apiVars, exc_logged, sig_rows, stopVars, taskVars, cur, consumed, loop_saw, mergeVars>>

\* leaving the with block joins the pool; return processed_data, counter,
\* stop_processing
legacy_ExitPool ==
    /\ cpc = "exit"
    /\ \A i \in Rows : tpc[i] = "done"
    /\ cpc' = "returned"
    /\ UNCHANGED <<argVars, apiVars, exc_logged, mainVars, stopVars, taskVars, cur, consumed, processed_data,
                   counter, recorded, loop_saw, diskVars, mergeVars>>

LegacyNext ==
    \/ legacy_Submit
    \/ \E i \in Rows : legacy_CheckStop(i)
    \/ \E i \in Rows : legacy_CheckExisting(i)
    \/ \E i \in Rows : legacy_FinishLookup(i)
    \/ \E i \in Rows : legacy_NextCompletion(i)
    \/ legacy_LoopExhausted
    \/ legacy_Consume
    \/ legacy_ExitPool
    \/ FinalFlush
    \/ merge_temp_files

LegacySpec == Init /\ [][LegacyNext]_vars

\* ------------------------------------------------------- the lookup alone
\* One call of get_debt_amount against a service whose successive answers are
\* given: the function of debt_checker/api_client.py, or the function of
\* src/api_client.py under its tenacity decorator.

\* answers with a decodable JSON object
DictAnswers ==
    { Answer("", "dict", error, message, status, count, payload[1], payload[2]) :
        error \in {"", "602", "498", "500"}, message \in BOOLEAN, status \in {0, 200, 404},
        count \in {-1, 0, 1, 2},
        payload \in { <<"missing", "null">>, <<"empty", "null">>, <<"nosum", "null">>,
                      <<"ok", "7.0">>, <<"ok", "7">>, <<"ok", "abc">>, <<"ok", "null">> } }

Answers ==
    DictAnswers \cup
    { FailedRequest("RequestException"), FailedRequest("JSONDecodeError"),
      Answer("", "list", "", FALSE, 0, -1, "missing", "null"),
      Answer("", "null", "", FALSE, 0, -1, "missing", "null") }

\* what the service may answer to a second and a third request
LaterAnswers == {FailedRequest("RequestException"), DebtAnswer("7.0")}

\* stop=stop_after_attempt(3)
stop_after_attempt == 3

ApiInit ==
    /\ df = [i \in Rows |-> [number |-> "A", Debt_Amount |-> "NA"]]
    /\ save_interval = 1
    /\ max_threads = 1
    /\ disk = EmptyDisk
    /\ stop_event = FALSE
    /\ tpc = [i \in Rows |-> "none"]
    /\ tres = [i \in Rows |-> ReturnNone]
    /\ cpc = "start"
    /\ cur = 0
    /\ consumed = {}
    /\ processed_data = <<>>
    /\ counter = 0
    /\ final_df = <<>>
    /\ merged_df = <<>>
    /\ joined = <<>>
    /\ recorded = <<>>
    /\ written = <<>>
    /\ write_failed = FALSE
    /\ tlog = [i \in Rows |-> [check |-> "no", lookup |-> "no", cred |-> FALSE,
                               failed |-> FALSE]]
    /\ cred_stop = FALSE
    /\ in_flight_at_stop = {}
    /\ loop_saw = "no"
    /\ exc_logged = 0
    /\ stop_processing = FALSE
    /\ sig_rows = {}
    /\ remote \in {<<a, b, c>> : a \in Answers, b \in LaterAnswers, c \in LaterAnswers}
    /\ api_impl \in {"debt_checker", "legacy"}
    /\ api_pc = "calling"
    /\ attempts = 0
    /\ api_out = Returns("None")

notApiVars ==
    <<df, save_interval, max_threads, stop_event, tpc, tres, cpc, cur, consumed,
      processed_data, counter, disk, final_df, merged_df, joined, recorded, written,
      write_failed, tlog, cred_stop, in_flight_at_stop, loop_saw, exc_logged,
      stop_processing, sig_rows>>

\* debt_checker/api_client.py: get_debt_amount is called and returns
LookupCall ==
    /\ api_impl = "debt_checker"
    /\ api_pc = "calling"
    /\ attempts' = attempts + 1
    /\ api_out' = CallLookup(remote[attempts + 1])
    /\ api_pc' = "done"
    /\ UNCHANGED <<remote, api_impl, notApiVars>>

\* the body of the function of src/api_client.py as the decorator sees it:
\* every exception is caught inside, the body always returns
LegacyBody(resp) == Returns(api_get_debt_amount(resp))

\* src/api_client.py: one attempt under @retry(stop=stop_after_attempt(3)):
\* tenacity calls the body again when it raised, and raises RetryError after
\* the last attempt
LegacyAttempt ==
    /\ api_impl = "legacy"
    /\ api_pc = "calling"
    /\ attempts' = attempts + 1
    /\ LET out == LegacyBody(remote[attempts + 1])
       IN IF out.exc = ""
          THEN api_pc' = "done" /\ api_out' = out
          ELSE IF attempts + 1 >= stop_after_attempt
               THEN api_pc' = "done" /\ api_out' = Raises("RetryError")
               ELSE api_pc' = "calling" /\ UNCHANGED api_out
    /\ UNCHANGED <<remote, api_impl, notApiVars>>

ApiNext == LookupCall \/ LegacyAttempt

ApiSpec == ApiInit /\ [][ApiNext]_vars

\* ================================================================ claims
Returned == cpc \in {"returned", "flushed", "merged"}
WrittenNames == {written[k].name : k \in 1..Len(written)}
RecordedIndexes == {recorded[k].index : k \in 1..Len(recorded)}
LookupStarted(i) == tlog[i].lookup # "no"
CredentialOutcome(i) ==
    tpc[i] = "done" /\ tres[i].kind = "Result" /\ tres[i].val.debt_amount \in CredentialTokens

RECURSIVE Flatten(_)
Flatten(ws) == IF ws = <<>> THEN <<>> ELSE Head(ws).rows \o Flatten(Tail(ws))

\* C1 as stated: once a credential error has set the stop flag no task starts a
\* remote lookup, and the final table holds fragment rows of this run only for
\* tasks whose lookup started before the flag was set.
C1_NoLookupAfterCredentialStop ==
    /\ \A i \in Rows : LookupStarted(i) => ~tlog[i].cred
    /\ \A k \in 1..Len(joined) :
          joined[k].frag \in WrittenNames => tlog[joined[k].index + 1].lookup = "clear"

\* C1 amended: a task that evaluates its stop check after the flag was set
\* starts no lookup (a lookup begun after the flag belongs to a task that had
\* passed its check before); every result the run records, and every fragment
\* row of the run that reaches the final table, is of a task whose lookup
\* started before the flag was set.
C1_NoLookupAfterStopCheck ==
    /\ \A i \in Rows : tlog[i].check = "set" => ~LookupStarted(i) /\ tpc[i] = "done"
    /\ \A i \in Rows : LookupStarted(i) => tlog[i].check = "clear"
    /\ \A k \in 1..Len(recorded) : tlog[recorded[k].index + 1].lookup = "clear"
    /\ \A k \in 1..Len(joined) :
          joined[k].frag \in WrittenNames => tlog[joined[k].index + 1].lookup = "clear"

C1_Witness ==
    /\ cpc = "merged"
    /\ cred_stop
    /\ \E i \in Rows : tlog[i].check = "set" /\ IsNa(df[i].Debt_Amount)
    /\ \E i \in Rows : CredentialOutcome(i)

\* C2 as stated: a credential-error outcome is recorded as a ProcessResult, with
\* the stop flag set, exactly once and as the last result of the run.
C2_CredentialResultRecordedLast ==
    Returned /\ (\E i \in Rows : CredentialOutcome(i)) =>
        /\ stop_event
        /\ recorded # <<>>
        /\ recorded[Len(recorded)].debt_amount \in CredentialTokens
        /\ \A k \in 1..(Len(recorded) - 1) : recorded[k].debt_amount \notin CredentialTokens

\* C3 as stated: for a row with an existing value no task is dispatched, no
\* lookup is made and no ProcessResult is created.
C3_NoTaskForExisting ==
    \A i \in Rows : ~IsNa(df[i].Debt_Amount) =>
        /\ tpc[i] = "none"
        /\ ~LookupStarted(i)
        /\ (i - 1) \notin RecordedIndexes

\* C3 amended: for a row with an existing value a process_row task is submitted
\* like for any other row, but it makes no remote lookup, returns None, and no
\* ProcessResult is created for the row.
C3_ExistingSkippedInsideTask ==
    \A i \in Rows : ~IsNa(df[i].Debt_Amount) =>
        /\ cpc # "start" => tpc[i] # "none"
        /\ tpc[i] # "lookup"
        /\ ~LookupStarted(i)
        /\ tpc[i] = "done" => tres[i] = ReturnNone
        /\ (i - 1) \notin RecordedIndexes
        /\ \A k \in 1..Len(written) : \A m \in 1..Len(written[k].rows) :
                written[k].rows[m].index # i - 1

C3_Witness ==
    \E i \in Rows :
        /\ ~IsNa(df[i].Debt_Amount)
        /\ tlog[i].check = "clear"
        /\ i \in consumed
        /\ cpc = "merged"
        /\ recorded # <<>>

\* the lines of the fragments in the directory that carry an identifier
DiskLines(number) ==
    {line \in UNION {{disk[f][m] : m \in 1..Len(disk[f])} : f \in DOMAIN disk} :
        line.number = number}

Merged == cpc = "merged" /\ final_df # <<>>

\* C4 as stated: a row with a pre-existing value v has v in the final table,
\* whatever the fragments hold.
C4_ExistingValueKept ==
    Merged => \A k \in 1..Len(final_df) :
        ~IsNa(df[joined[k].left].Debt_Amount) =>
            final_df[k].Debt_Amount = df[joined[k].left].Debt_Amount

\* C4 amended: a row with a pre-existing value v has v in the final table
\* unless the fragment line it is joined with holds a debt amount, which then
\* replaces v; the merge falls back to the original value only where the
\* fragment's amount is absent (or no fragment holds the identifier).
C4_ExistingValueKeptUnlessFragment ==
    Merged => \A k \in 1..Len(final_df) :
        LET v == df[joined[k].left].Debt_Amount
            got == final_df[k].Debt_Amount
        IN ~IsNa(v) =>
            /\ final_df[k].number = df[joined[k].left].number
            /\ DiskLines(final_df[k].number) = {} => got = v
            /\ got # v => \E line \in DiskLines(final_df[k].number) :
                            line.debt_amount = got /\ ~IsNa(got)
            /\ ~IsNa(joined[k].debt_amount) => got = joined[k].debt_amount
            /\ IsNa(joined[k].debt_amount) => got = v

C4_Witness ==
    /\ Merged
    /\ \E k \in 1..Len(final_df) :
          /\ df[joined[k].left].Debt_Amount = "5.0"
          /\ final_df[k].Debt_Amount = "9.0"
    /\ \E k \in 1..Len(final_df) :
          /\ df[joined[k].left].Debt_Amount = "5.0"
          /\ final_df[k].Debt_Amount = "5.0"

\* C5 as stated: every row of the final table has the checkpointed value of its
\* identifier if a fragment holds one, otherwise its pre-existing value,
\* otherwise absent.
C5_MergePrecedence ==
    Merged => \A k \in 1..Len(final_df) :
        LET held == {line.debt_amount : line \in DiskLines(final_df[k].number)} \ {""}
            v == df[joined[k].left].Debt_Amount
            got == final_df[k].Debt_Amount
        IN IF held # {} THEN got \in held
           ELSE IF ~IsNa(v) THEN got = v
           ELSE IsNa(got)

\* C6: at the return of process_rows_concurrently, no write having failed, the
\* fragments written in the run (each still in the directory as written) and
\* the returned buffer hold exactly the recorded results, in order, once each.
C6_CheckpointCompleteness ==
    cpc = "returned" /\ ~write_failed =>
        /\ Flatten(written) \o processed_data = recorded
        /\ \A k \in 1..Len(written) :
              /\ written[k].name \in DOMAIN disk
              /\ disk[written[k].name] = ToCsv(written[k].rows)
        /\ \A a, b \in 1..Len(written) : a # b => written[a].name # written[b].name

C6_Witness ==
    /\ cpc = "returned"
    /\ ~write_failed
    /\ Len(written) = 2
    /\ Len(recorded) = 2

C6_WitnessBuffer ==
    /\ cpc = "returned"
    /\ ~write_failed
    /\ written = <<>>
    /\ Len(processed_data) = 1

\* C8 as stated: the result of every task in flight when the stop flag became
\* true is recorded.
C8_InFlightResultsRecorded ==
    Returned => \A i \in in_flight_at_stop : (i - 1) \in RecordedIndexes

\* C8 amended: every task in flight when the stop flag becomes true runs to
\* completion before process_rows_concurrently returns, but its result is
\* never recorded: the loop head sees the flag and leaves.
C8_InFlightCompletedNotRecorded ==
    /\ Returned => \A i \in Rows : tpc[i] = "done"
    /\ \A i \in in_flight_at_stop : (i - 1) \notin RecordedIndexes
    /\ \A i \in in_flight_at_stop : \A k \in 1..Len(written) :
          \A m \in 1..Len(written[k].rows) : written[k].rows[m].index # i - 1

C8_Witness ==
    /\ cpc = "returned"
    /\ \E i \in in_flight_at_stop :
          /\ tres[i].kind = "Result"
          /\ tres[i].val.debt_amount = "7.0"
          /\ i \in consumed

\* C9: once the loop head has read the stop flag as set, the loop is left: the
\* completion just handed out and the completions not handed out are not
\* recorded, and counter and buffer are those of the completions consumed
\* before.
C9_StopObservedStopsConsuming ==
    loop_saw = "set" =>
        /\ cpc \in {"exit", "returned", "flushed", "merged"}
        /\ \A k \in 1..Len(recorded) : (recorded[k].index + 1) \in consumed \ {cur}
        /\ counter = Len(recorded)
        /\ Len(processed_data) <= Len(recorded)
        /\ processed_data =
              SubSeq(recorded, Len(recorded) - Len(processed_data) + 1, Len(recorded))

C9_Witness ==
    /\ loop_saw = "set"
    /\ cpc = "returned"
    /\ recorded # <<>>
    /\ tres[cur].kind = "Result"
    /\ tres[cur].val.debt_amount = "7.0"

\* C10 as stated: the returned list has as many elements as the returned
\* counter.
C10_ReturnedLengthIsCounter ==
    cpc = "returned" => Len(processed_data) = counter

AllDiskLines == UNION {{disk[f][m] : m \in 1..Len(disk[f])} : f \in DOMAIN disk}

\* the process has flushed what a SIGINT found buffered and has merged
FinalizedAfterSigint ==
    /\ cpc = "merged"
    /\ \A r \in sig_rows : \E line \in AllDiskLines : line = ToCsv(<<r>>)[1]
    /\ DOMAIN disk # {} => final_df # <<>>

\* C7: when a SIGINT arrives during the run of main.py, the run goes on to its
\* end, where every result that was buffered at the SIGINT is in a fragment
\* (no write of a fragment having failed) and the merge has run over the
\* fragments.
C7_FinalizationOnInterrupt ==
    stop_processing ~> (FinalizedAfterSigint \/ (cpc = "merged" /\ write_failed))

C7_Witness ==
    /\ FinalizedAfterSigint
    /\ ~write_failed
    /\ sig_rows # {}
    /\ loop_saw = "set"
    /\ tres[cur].kind = "Result"

\* the results recorded since the last flush: the flushes come at the multiples
\* of save_interval
Remainder == SubSeq(recorded, Len(recorded) - (Len(recorded) % save_interval) + 1, Len(recorded))

LoopBodyStep == cpc = "result" /\ cpc' # "result"
\* the counter reaches a positive multiple of save_interval in this step
ReachesMultiple == counter' = counter + 1 /\ counter' % save_interval = 0
\* this step writes a fragment
WritesFragment == written' # written

LookupFailed(i) == tpc[i] = "done" /\ tlog[i].failed

\* C13 as stated: a failed remote call of a task becomes a ProcessResult of that
\* record without amount and with the tag NETWORK_ERROR or UNKNOWN_ERROR, and
\* the step in which the call fails leaves the stop flag alone.
C13_LookupFailureTagged ==
    /\ [](\A i \in Rows : LookupFailed(i) =>
            /\ tres[i].kind = "Result"
            /\ tres[i].val.index = i - 1
            /\ tres[i].val.debt_amount = "None"
            /\ tres[i].val.error \in {"NETWORK_ERROR", "UNKNOWN_ERROR"})
    /\ [][\A i \in Rows : (~LookupFailed(i) /\ LookupFailed(i)') => stop_event' = stop_event]_vars

\* C14: when future.result() raises in process_rows_concurrently, the function
\* appends and counts nothing more, logs the exception once and raises it to
\* its caller: it never returns a (results, counter) pair, and a run that
\* returns has logged no exception.
C14_ExceptionLoggedAndReraised ==
    /\ [](cpc = "raised" => exc_logged = 1)
    /\ [](cpc \in {"unwind", "returned", "flushed", "merged"} => exc_logged = 0)
    /\ [][(cpc = "result" /\ tres[cur].kind = "Raised") =>
            /\ cpc' \in {"result", "unwind"}
            /\ UNCHANGED <<processed_data, counter, recorded, disk>>]_vars
    /\ [][cpc = "unwind" =>
            /\ cpc' \in {"unwind", "raised"}
            /\ UNCHANGED <<processed_data, counter, recorded, disk>>]_vars
    /\ [][cpc = "raised" => cpc' = "raised"]_vars

C14_Witness ==
    /\ cpc = "raised"
    /\ exc_logged = 1
    /\ tres[cur].kind = "Raised"
    /\ recorded # <<>>

\* the request fails for a reason that may pass: network, timeout, undecodable body
Transient(a) == a.exc # ""

\* C15 as stated: a lookup whose request fails transiently is tried again, up
\* to 3 attempts in all; it ends as a failure only after a third failed
\* attempt, and two failures followed by a good answer give that answer's
\* amount.
C15_RetryOnTransientFailure ==
    api_pc = "done" =>
        /\ (Transient(remote[1]) /\ Transient(remote[2]) /\ remote[3] = DebtAnswer("7.0"))
              => (api_out = Returns("7.0") /\ attempts = 3)
        /\ (Transient(remote[1]) /\ remote[2] = DebtAnswer("7.0")) => api_out = Returns("7.0")
        /\ (Transient(remote[attempts]) /\ api_out.val = "None") => attempts = stop_after_attempt

\* what get_debt_amount may return
Amounts == {"0.0", "7.0"}
LookupValues == Amounts \cup CredentialTokens \cup {"None"}

\* C16: whatever the service answers, the call of get_debt_amount of
\* debt_checker returns, raising nothing, and its value is an amount, one of
\* the two credential tags, or None; the tags come from the error codes 602
\* and 498 only and an amount only from a well-formed answer.
C16_OutcomeExhaustive ==
    (api_pc = "done" /\ api_impl = "debt_checker") =>
        /\ api_out.exc = ""
        /\ api_out.val \in LookupValues
        /\ api_out.val = "TOKEN_NO_ACCESS" => remote[1].error = "602"
        /\ api_out.val = "TOKEN_NO_MONEY" => remote[1].error = "498"
        /\ api_out.val \in Amounts =>
              (remote[1].exc = "" /\ remote[1].error = "" /\ remote[1].status = 200)
        /\ (Transient(remote[1]) \/ remote[1].shape # "dict") => api_out.val = "None"

\* a JSON null where the sum should be: float(None) raises a TypeError, which
\* _handle_api_response lets through and get_debt_amount catches
C16_Witness ==
    /\ api_pc = "done"
    /\ api_impl = "debt_checker"
    /\ remote[1] = DebtAnswer("null")
    /\ _handle_api_response(remote[1]) = Raises("TypeError")
    /\ api_out = Returns("None")

\* C17 as stated: the table the merge produces has one row for each row of the
\* input table, in the input's order, whatever the fragments hold.
C17_OneRowPerInputRow ==
    (cpc = "merged" /\ DOMAIN disk # {}) =>
        /\ Len(final_df) = Len(df)
        /\ \A k \in 1..Len(df) : final_df[k].number = df[k].number

\* the caller's call save_temp_data(processed_data, counter, ...)
SaveCall == cpc = "returned" /\ cpc' = "flushed"

\* C18: a call of save_temp_data with an empty list leaves the directory as it
\* was; a call with results writes one file, named after the counter and
\* holding one line per result, and touches no other file (or, when to_csv
\* raises, writes nothing).
C18_SaveWritesIffNonEmpty ==
    [][SaveCall =>
        /\ processed_data = <<>> => UNCHANGED <<disk, written, write_failed>>
        /\ processed_data # <<>> =>
              \/ /\ DOMAIN disk' = DOMAIN disk \cup {counter}
                 /\ disk'[counter] = ToCsv(processed_data)
                 /\ \A f \in DOMAIN disk \ {counter} : disk'[f] = disk[f]
                 /\ written' = Append(written, [name |-> counter, rows |-> processed_data])
                 /\ write_failed' = write_failed
              \/ /\ write_failed'
                 /\ UNCHANGED <<disk, written>>]_vars

C18_Witness ==
    /\ cpc = "flushed"
    /\ processed_data # <<>>
    /\ ~write_failed
    /\ counter \in DOMAIN disk
    /\ disk[counter] = ToCsv(processed_data)
    /\ Len(written) = 1

C18_WitnessEmpty ==
    /\ cpc = "flushed"
    /\ processed_data = <<>>
    /\ recorded = <<>>
    /\ consumed = Rows
    /\ written = <<>>

\* the next step of the loop body brings the counter to a multiple of save_interval
AtBoundary ==
    /\ cpc = "result"
    /\ tres[cur].kind = "Result"
    /\ (counter + 1) % save_interval = 0

\* C19: the step of the loop in which a fragment write fails is an ordinary
\* step: the result is recorded and counted, the buffer is cleared, nothing is
\* written and the loop goes on to the next completion; and after a failed
\* write the flush at a later boundary is made all the same (its write is a
\* step the loop can take).
C19_WriteFailureSwallowed ==
    /\ [][(LoopBodyStep /\ ~write_failed /\ write_failed') =>
            /\ cpc' = "wait"
            /\ counter' = counter + 1
            /\ recorded' = Append(recorded, tres[cur].val)
            /\ processed_data' = <<>>
            /\ UNCHANGED <<disk, written, exc_logged, stop_event>>]_vars
    /\ []((write_failed /\ AtBoundary) => ENABLED (Consume /\ WritesFragment))

C19_Witness ==
    /\ write_failed
    /\ save_interval = 1
    /\ cpc = "wait"
    /\ counter = 2
    /\ WrittenNames = {2}
    /\ 1 \notin DOMAIN disk
    /\ disk[2] = ToCsv(<<recorded[2]>>)

C20_WitnessLastFlush ==
    /\ cpc = "flushed"
    /\ save_interval = 2
    /\ Len(written) = 1
    /\ written[1].name = 1
    /\ counter = 1

\* the step of a task whose lookup returns a credential token
CredentialStep ==
    \E i \in Rows :
        /\ tpc[i] = "lookup"
        /\ tpc'[i] = "done"
        /\ tres'[i].kind = "Result"
        /\ tres'[i].val.debt_amount \in CredentialTokens
\* the step of the SIGINT handler: no task and no loop position moves
InterruptStep == UNCHANGED <<tpc, tres, cpc, cur, consumed>>

\* C21: the stop flag is clear when the run begins, goes from clear to set
\* only in a step of the SIGINT handler or in the step of a task whose lookup
\* returned a credential token, and once set it stays set.
C21_StopFlagMonotonic ==
    /\ ~stop_event
    /\ [][stop_event => stop_event']_vars
    /\ [][(~stop_event /\ stop_event') => (CredentialStep \/ InterruptStep)]_vars

C21_Witness ==
    /\ stop_event
    /\ cred_stop
    /\ cpc = "merged"
    /\ \E i \in Rows : tlog[i].check = "set"

\* C22: when process_rows_concurrently is left by an exception, the results
\* that were in its buffer at the failure are in a fragment of the directory.
\* (Nothing runs after the raise but the SIGINT handler, which holds lists of
\* its own: the state at the raise is what finalization is left with.)
C22_AbortStillFlushes ==
    cpc = "raised" =>
        \A k \in 1..Len(processed_data) :
            ToCsv(<<processed_data[k]>>)[1] \in AllDiskLines

\* how far the task of a row has got
TaskRank(pc) ==
    CASE pc = "none" -> 0
      [] pc = "queued" -> 1
      [] pc = "checked" -> 2
      [] pc = "lookup" -> 3
      [] pc = "done" -> 4

\* C23: once the tasks are submitted every row without a value has its one
\* task, a task only moves forward (it is never queued again and starts at
\* most one lookup), and no two recorded results carry the same row index.
C23_OneTaskOneResult ==
    /\ [](cpc # "start" =>
            \A i \in Rows : IsNa(df[i].Debt_Amount) => tpc[i] # "none")
    /\ [][\A i \in Rows : tpc'[i] # tpc[i] => TaskRank(tpc'[i]) > TaskRank(tpc[i])]_vars
    /\ [](\A a, b \in 1..Len(recorded) : a # b => recorded[a].index # recorded[b].index)

C23_Witness ==
    /\ cpc = "merged"
    /\ \A i \in Rows : IsNa(df[i].Debt_Amount) /\ tlog[i].lookup = "clear"
    /\ Len(recorded) = NumRows

\* C24 as stated: once a credential error has made the loop leave,
\* process_rows_concurrently can return whatever the tasks are doing.
C24_ReturnsWithoutWaiting ==
    cred_stop /\ cpc = "exit" => ENABLED ExitPool

\* C24 amended: once a credential error has made the loop leave,
\* process_rows_concurrently can return exactly when every submitted task has
\* finished: the running tasks are awaited and the queued ones still run.
C24_ReturnWaitsForTasks ==
    cred_stop /\ cpc = "exit" =>
        (ENABLED ExitPool <=> \A i \in Rows : tpc[i] = "done")

C24_Witness ==
    /\ cred_stop
    /\ cpc = "exit"
    /\ \E i \in Rows : CredentialOutcome(i) /\ i \in consumed
    /\ \E i \in Rows : tpc[i] = "lookup"

\* C25: in a run of main.py no recorded result is written into two fragments
\* of different names, whenever the SIGINT comes.
C25_NoResultInTwoFragments ==
    \A a, b \in 1..Len(written) :
        written[a].name # written[b].name =>
            \A m \in 1..Len(written[a].rows) : \A n \in 1..Len(written[b].rows) :
                written[a].rows[m].index # written[b].rows[n].index

\* C26: a fragment that is in the directory, written by this run or left by
\* an earlier one, keeps its content through every later step.
C26_FragmentNeverOverwritten ==
    [][\A f \in DOMAIN disk : f \in DOMAIN disk' /\ disk'[f] = disk[f]]_vars

\* C27: every run of process_rows_concurrently returns in the end, its
\* threads being scheduled and its lookups returning: also when the stop flag
\* is set while tasks are queued or running.
C27_RunReturns == <>Returned

C27_Witness ==
    /\ cpc = "returned"
    /\ in_flight_at_stop # {}
    /\ \E i \in Rows : tlog[i].check = "set"

\* the loop body runs on a completion whose result is the sentinel
SentinelStep == cpc = "result" /\ tres[cur].kind = "API_ERROR" /\ cpc' # cpc

\* C28: the loop body that finds 'API_ERROR' leaves the loop and changes
\* neither the buffer nor the counter nor the directory; when the sentinel is
\* the first completion consumed, the function returns an empty buffer and
\* counter 0 and has written no fragment.
C28_SentinelStopsLoop ==
    /\ [][SentinelStep =>
            /\ cpc' = "exit"
            /\ UNCHANGED <<processed_data, counter, recorded, consumed, diskVars>>]_vars
    /\ [](cpc = "returned" /\ consumed = {cur} /\ tres[cur].kind = "API_ERROR" =>
            processed_data = <<>> /\ counter = 0 /\ written = <<>>)

C28_Witness ==
    /\ cpc = "returned"
    /\ consumed = {cur}
    /\ tres[cur].kind = "API_ERROR"
    /\ loop_saw = "clear"
    /\ \E i \in Rows : tres[i].kind = "Result"

C28_WitnessBuffered ==
    /\ cpc = "returned"
    /\ tres[cur].kind = "API_ERROR"
    /\ loop_saw = "clear"
    /\ Len(processed_data) = 1

\* the loop body runs on a None result with the counter at 0 or at a multiple
\* of save_interval
SkippedAtMultiple ==
    LoopBodyStep /\ tres[cur].kind = "None" /\ counter % save_interval = 0

C29_WitnessPartial ==
    /\ cpc = "wait"
    /\ save_interval = 2
    /\ counter = 1
    /\ Len(processed_data) = 1

\* C30: no result whose debt_amount is a credential token is recorded,
\* buffered, written to a fragment or merged into the final table.
C30_NoCredentialTokenRecorded ==
    /\ \A k \in 1..Len(recorded) : recorded[k].debt_amount \notin CredentialTokens
    /\ \A k \in 1..Len(processed_data) : processed_data[k].debt_amount \notin CredentialTokens
    /\ \A line \in AllDiskLines : line.debt_amount \notin CredentialTokens
    /\ \A k \in 1..Len(final_df) : final_df[k].Debt_Amount \notin CredentialTokens

\* the SIGINT handler runs while process_rows_concurrently is in its loop and
\* raises the flag
HandlerStep ==
    /\ cpc \in {"wait", "result"}
    /\ ~stop_event /\ stop_event'
    /\ InterruptStep

\* C31: the SIGINT handler that runs during the loop with results in the
\* buffer of process_rows_concurrently writes a fragment holding those
\* results under the name of the loop's counter (a write that raises aside).
C31_HandlerSavesBuffer ==
    [][HandlerStep /\ processed_data # <<>> =>
          \/ write_failed'
          \/ /\ written' = Append(written, [name |-> counter, rows |-> processed_data])
             /\ disk' = WriteFile(disk, counter, ToCsv(processed_data))]_vars

====
